---- MODULE Spec2Model ----
(***************************************************************************)
(* Background import job: the job record kept by the store, the worker     *)
(* (process-import-job) that advances it, and the client-side tracker      *)
(* (the useImportJob hook, second variant of src/src/hooks/useImportJob.ts, *)
(* lines 258-586) that creates, polls, cancels and resumes it.             *)
(*                                                                         *)
(* Time.  One time unit is 2 hours (7 200 000 ms).  Instants are not kept  *)
(* as absolute timestamps: every timestamp t of the program is held as the *)
(* elapsed time Date.now() - t, which is the only way the code reads it    *)
(* (timeSinceUpdate, pollingDuration).  Tick ages every such value by one  *)
(* unit; a value is capped one unit above the threshold it is compared     *)
(* with, which is exact for the comparisons "> threshold" of the code.     *)
(* The 2 s poll interval is far below one unit: a poll tick needs no Tick. *)
(*                                                                         *)
(* React.  A handler (interval callback, promise continuation, storage     *)
(* event) runs its synchronous part to the end; its state updates are      *)
(* batched, the component re-renders and the effects whose dependencies    *)
(* changed run their cleanup and then their body (Commit).  An action of   *)
(* this module is one such handler together with the commit it causes.     *)
(***************************************************************************)
EXTENDS Integers, Sequences, FiniteSets, TLC

NULL == "null"

\* no record: a job id the store does not hold, activeJob === null
NoJob == [id |-> 0, status |-> "none"]

\* --- program constants (in time units of 2 hours) -----------------------
STALE_JOB_THRESHOLD == 1

MAX_POLLING_TIME == 12

\* --- bounds of the model ------------------------------------------------
\* job ids the store can hand out (jobs created in one run of the model)
MaxJobs == 1

\* most names a startJob call selects
MaxTables == 1

\* most fetches of the job record in flight at once
MaxInFlight == 2

\* most names of a worker run followed on its own (SpecWorker)
MaxNames == 2

JobIds == 1..MaxJobs

Active == {"pending", "in_progress"}

Terminal == {"completed", "failed", "cancelled"}

Statuses == Active \cup Terminal

AgeCap == STALE_JOB_THRESHOLD + 1

PollCap == MAX_POLLING_TIME + 1

\* one unit later: an elapsed time grows by one, up to its cap
Older(a, cap) == IF a < cap THEN a + 1 ELSE cap

\* a ref holding a time or a handle is a set: {} is null, {x} holds x
OlderRef(r, cap) == {Older(a, cap) : a \in r}

VARIABLES
    store,      \* import_jobs: job id -> record, or NoJob
    worker,     \* per job id: the run of process-import-job for it
    tracker,    \* the hook's state and refs
    authToken,  \* localStorage.getItem('authToken') is set
    resume,     \* checkForActiveJobs calls awaiting their list of active jobs
    polls,      \* fetchJobStatus calls of the interval callback in flight
    grace,      \* auto-cancel timeout callbacks awaiting their final check
    out,        \* what the latest step was and sent: the caller (by), its toast,
                \* the PUT it sent, what an auto-cancel timeout read, and the
                \* stale flag a poll answer found
    hist        \* history of the current adoption, read by the properties only

vars == <<store, worker, tracker, authToken, resume, polls, grace, out, hist>>


Quiet ==
    [by |-> NULL, toast |-> NULL, put |-> {}, atFire |-> NoJob, finalCheck |-> NoJob,
     stuckBefore |-> FALSE]

\* --- the store: import_jobs ---------------------------------------------

\* a new row: the column defaults of the table
NewJob(id, n) ==
    [id |-> id, status |-> "pending", total_tables |-> n, imported_tables |-> 0,
     failed_tables |-> <<>>, error_message |-> NULL, updated_ago |-> 0,
     completed_at |-> NULL]

\* update(...).eq('id', j): the named columns are overwritten, the others kept
Patch(rec, p) == [f \in DOMAIN rec |-> IF f \in DOMAIN p THEN p[f] ELSE rec[f]]

Update(j, p) == IF store[j] = NoJob THEN store ELSE [store EXCEPT ![j] = Patch(@, p)]

\* GET /api/import-jobs/user/{user}?status=pending,in_progress, newest first
ActiveIds == {j \in JobIds : store[j].status \in Active}

Newest(S) == CHOOSE j \in S : \A k \in S : k <= j

FreeIds == {j \in JobIds : store[j] = NoJob}

\* --- the worker: process-import-job -------------------------------------

NoWorker == [pc |-> "none", n |-> 0, k |-> 0, importedCount |-> 0, failedTables |-> <<>>]

\* a job of an earlier session whose worker is gone
LostWorker == [NoWorker EXCEPT !.pc = "lost"]

\* Deno.serve handler: the job is marked in_progress, processJob is started
WorkerAccept(j) ==
    /\ worker[j].pc = "requested"
    /\ store' = Update(j, [status |-> "in_progress", updated_ago |-> 0,
                           total_tables |-> worker[j].n])
    /\ worker' = [worker EXCEPT ![j].pc = "createdb"]
    /\ out' = Quiet
    /\ UNCHANGED <<tracker, authToken, resume, polls, grace, hist>>

\* a startImportJob whose catch gives the created job up: setActiveJob(null),
\* setIsPolling(false), and the cleanups that follow
TriggerFailDropsJob(j) ==
    /\ worker[j].pc = "requested"
    /\ worker' = [worker EXCEPT ![j].pc = "lost"]
    /\ tracker' = [tracker EXCEPT !.activeJob = NoJob, !.isPolling = FALSE,
                                  !.pollingIntervalRef = {}, !.pollingStartTimeRef = {},
                                  !.stuckJobWarningShownRef = FALSE,
                                  !.autoCancelTimeoutRef = {}]
    /\ out' = [Quiet EXCEPT !.by = "start_failed", !.toast = "Failed to start import"]
    /\ UNCHANGED <<store, authToken, resume, polls, grace, hist>>

\* the request to the worker fails: no worker runs for the job; startImportJob
\* shows a toast and returns null
TriggerFail(j) ==
    /\ worker[j].pc = "requested"
    /\ worker' = [worker EXCEPT ![j].pc = "lost"]
    /\ out' = [Quiet EXCEPT !.by = "start_failed", !.toast = "Failed to start import"]
    /\ UNCHANGED <<store, tracker, authToken, resume, polls, grace, hist>>

\* a loop that runs its body once more than there are names
AfterTableOneMore(w) ==
    IF w.k <= w.n THEN [w EXCEPT !.k = @ + 1, !.pc = "check"] ELSE [w EXCEPT !.pc = "final"]

\* processJob, end of the loop body: the next name, or the loop is left
AfterTable(w) ==
    IF w.k < w.n THEN [w EXCEPT !.k = @ + 1, !.pc = "check"] ELSE [w EXCEPT !.pc = "final"]

\* processJob: create the database
WorkerCreateDb(j, ok) ==
    /\ worker[j].pc = "createdb"
    /\ IF ok
       THEN /\ worker' = [worker EXCEPT ![j] =
                             IF @.n = 0 THEN [@ EXCEPT !.pc = "final"]
                             ELSE [@ EXCEPT !.pc = "check", !.k = 1]]
            /\ store' = store
       ELSE /\ worker' = [worker EXCEPT ![j].pc = "done"]
            /\ store' = Update(j, [status |-> "failed", error_message |-> "db_failed",
                                   updated_ago |-> 0, completed_at |-> "set"])
    /\ out' = Quiet
    /\ UNCHANGED <<tracker, authToken, resume, polls, grace, hist>>

\* processJob, top of the loop: stop if the job was cancelled
WorkerCheck(j) ==
    /\ worker[j].pc = "check"
    /\ worker' = [worker EXCEPT ![j].pc =
                     IF store[j].status = "cancelled"
                     THEN "done" ELSE "import"]
    /\ out' = Quiet
    /\ UNCHANGED <<store, tracker, authToken, resume, polls, grace, hist>>

\* a loop body whose catch forgets failedTables.push(tableName)
WorkerImportForgetsFailure(j, ok) ==
    /\ worker[j].pc = "import"
    /\ LET w == worker[j]
           w1 == IF ok THEN [w EXCEPT !.importedCount = @ + 1] ELSE w
       IN /\ worker' = [worker EXCEPT ![j] = AfterTable(w1)]
          /\ store' = IF ok
                      THEN Update(j, [imported_tables |-> w1.importedCount,
                                      updated_ago |-> 0])
                      ELSE Update(j, [failed_tables |-> w1.failedTables,
                                      updated_ago |-> 0])
    /\ out' = Quiet
    /\ UNCHANGED <<tracker, authToken, resume, polls, grace, hist>>

\* processJob, rest of the loop body: the table is imported, or it fails
WorkerImport(j, ok) ==
    /\ worker[j].pc = "import"
    /\ LET w == worker[j]
           w1 == IF ok THEN [w EXCEPT !.importedCount = @ + 1]
                 ELSE [w EXCEPT !.failedTables = Append(@, w.k)]
       IN /\ worker' = [worker EXCEPT ![j] = AfterTable(w1)]
          /\ store' = IF ok
                      THEN Update(j, [imported_tables |-> w1.importedCount,
                                      updated_ago |-> 0])
                      ELSE Update(j, [failed_tables |-> w1.failedTables,
                                      updated_ago |-> 0])
    /\ out' = Quiet
    /\ UNCHANGED <<tracker, authToken, resume, polls, grace, hist>>

\* a final status that is failed as soon as one table failed
finalStatusStrict(w) ==
    IF Len(w.failedTables) = 0 THEN "completed" ELSE "failed"

finalStatus(w) ==
    IF Len(w.failedTables) = 0 THEN "completed"
    ELSE IF w.importedCount = 0 THEN "failed" ELSE "completed"

\* processJob: the final status update
WorkerFinal(j) ==
    /\ worker[j].pc = "final"
    /\ LET w == worker[j]
       IN store' = Update(j, [status |-> finalStatus(w),
                              imported_tables |-> w.importedCount,
                              failed_tables |-> w.failedTables,
                              error_message |-> IF Len(w.failedTables) > 0
                                                THEN "tables_failed" ELSE NULL,
                              updated_ago |-> 0, completed_at |-> "set"])
    /\ worker' = [worker EXCEPT ![j].pc = "done"]
    /\ out' = Quiet
    /\ UNCHANGED <<tracker, authToken, resume, polls, grace, hist>>


\* --- the tracker: useImportJob -------------------------------------------

InitTracker ==
    [activeJob |-> NoJob, isPolling |-> FALSE, isJobStuck |-> FALSE,
     pollingIntervalRef |-> {}, isLoggedOutRef |-> FALSE,
     pollingStartTimeRef |-> {}, stuckJobWarningShownRef |-> FALSE,
     autoCancelTimeoutRef |-> {}]

\* the condition of the polling effect: isPolling && activeJob
Polling(t) == t.isPolling /\ t.activeJob # NoJob

\* cleanup returned by the polling effect
PollingCleanup(t) ==
    [t EXCEPT !.pollingIntervalRef = {}, !.autoCancelTimeoutRef = {},
              !.pollingStartTimeRef = {}, !.stuckJobWarningShownRef = FALSE]

\* cleanup returned by the storage effect
StorageCleanup(t) ==
    [t EXCEPT !.pollingIntervalRef = {}, !.autoCancelTimeoutRef = {}]

\* body of the polling effect
PollingEffect(t) ==
    IF Polling(t)
    THEN [t EXCEPT !.pollingStartTimeRef = IF @ = {} THEN {0} ELSE @,
                   !.pollingIntervalRef = {t.activeJob.id}]
    ELSE [t EXCEPT !.pollingStartTimeRef = {}]

\* a render whose effects return no cleanup: only the effect body runs
CommitNoCleanup(old, new, jobSet) ==
    IF jobSet \/ new.isPolling # old.isPolling THEN PollingEffect(new) ELSE new

\* The render that follows a handler.  old: the state of the previous render;
\* new: the state and refs the handler left; jobSet: the handler called
\* setActiveJob with another value (a record just received is a new object).
\* The effects whose dependencies changed run their cleanups, then their bodies.
Commit(old, new, jobSet) ==
    LET pollDeps == jobSet \/ new.isPolling # old.isPolling
        c1 == IF pollDeps /\ Polling(old) THEN PollingCleanup(new) ELSE new
        c2 == IF jobSet THEN StorageCleanup(c1) ELSE c1
    IN IF pollDeps THEN PollingEffect(c2) ELSE c2

IsStale(job) == job.updated_ago > STALE_JOB_THRESHOLD /\ job.status \in Active

\* the interval callback warns and arms the auto-cancel timeout
PollWarns(t, u) == IsStale(u) /\ ~t.stuckJobWarningShownRef

\* a stuck-job part whose not-stuck branch forgets setIsJobStuck(false)
StuckCheckKeepsFlag(t, u) ==
    IF IsStale(u)
    THEN IF ~t.stuckJobWarningShownRef
         THEN [t EXCEPT !.isJobStuck = TRUE, !.stuckJobWarningShownRef = TRUE,
                        !.autoCancelTimeoutRef = {u.id}]
         ELSE [t EXCEPT !.isJobStuck = TRUE]
    ELSE [t EXCEPT !.stuckJobWarningShownRef = FALSE, !.autoCancelTimeoutRef = {}]

\* interval callback: stuck-job part
StuckCheck(t, u) ==
    IF IsStale(u)
    THEN IF ~t.stuckJobWarningShownRef
         THEN [t EXCEPT !.isJobStuck = TRUE, !.stuckJobWarningShownRef = TRUE,
                        !.autoCancelTimeoutRef = {u.id}]
         ELSE [t EXCEPT !.isJobStuck = TRUE]
    ELSE [t EXCEPT !.isJobStuck = FALSE, !.stuckJobWarningShownRef = FALSE,
                   !.autoCancelTimeoutRef = {}]

CeilingReached(t) == \E a \in t.pollingStartTimeRef : a > MAX_POLLING_TIME

\* interval callback: polling ceiling, then the terminal branch
StopCheck(t, u) ==
    IF CeilingReached(t)
    THEN [t EXCEPT !.isPolling = FALSE, !.pollingStartTimeRef = {}]
    ELSE IF u.status \in Terminal
         THEN [t EXCEPT !.isPolling = FALSE, !.isJobStuck = FALSE,
                        !.pollingStartTimeRef = {},
                        !.stuckJobWarningShownRef = FALSE,
                        !.autoCancelTimeoutRef = {}]
         ELSE t

\* interval callback with the record u that fetchJobStatus returned
PollBody(t, u) == StopCheck(StuckCheck([t EXCEPT !.activeJob = u], u), u)

\* checkForActiveJobs with a non-empty list whose first job is job
ResumeBody(t, job) ==
    LET a == [t EXCEPT !.activeJob = job, !.isPolling = TRUE]
    IN IF IsStale(job)
       THEN [a EXCEPT !.isJobStuck = TRUE, !.stuckJobWarningShownRef = TRUE,
                      !.autoCancelTimeoutRef = {job.id}]
       ELSE a

\* cancelImportJob after its PUT succeeded
CancelBody(t) ==
    [t EXCEPT !.activeJob = NoJob, !.isPolling = FALSE, !.isJobStuck = FALSE,
              !.pollingStartTimeRef = {}, !.stuckJobWarningShownRef = FALSE,
              !.autoCancelTimeoutRef = {}, !.pollingIntervalRef = {}]

\* handleStorageChange, authToken removed
SignOutBody(t) ==
    IF t.activeJob # NoJob
    THEN [t EXCEPT !.isPolling = FALSE, !.activeJob = NoJob, !.isLoggedOutRef = TRUE]
    ELSE t

\* --- history of the current adoption (read by the properties only) -------
\*   sinceAdopt  time since polling began for the job now polled, kept while
\*               every unit saw a poll answered and no poll failed ({} if not)
\*   polledNow   a poll was answered in the current unit
\*   staleSince  "detected": a poll found the job stale and every poll since
\*               was answered and found it stale; "overdue": so for a whole
\*               unit, which is longer than the 15 min grace period
\*   warnings    stale warnings raised in that stale period (2: two or more)
\*   autoCancels cancel requests issued by auto-cancel timeouts, per job
NoHist(h, t) ==
    [sinceAdopt |-> IF Polling(t) THEN {0} ELSE {},
     polledNow |-> FALSE, staleSince |-> "none", warnings |-> 0,
     autoCancels |-> h.autoCancels]

SameRun(old, new) ==
    Polling(old) /\ Polling(new) /\ old.activeJob.id = new.activeJob.id

\* after a handler that took the tracker from old to new; observed: it was
\* handed the record u of the job; warned: it raised the stale warning
HistStep(old, new, observed, u, warned) ==
    LET base == IF SameRun(old, new) THEN hist ELSE NoHist(hist, new)
    IN IF ~Polling(new) \/ ~observed THEN base
       ELSE IF IsStale(u)
       THEN [base EXCEPT !.polledNow = TRUE,
                         !.staleSince = IF @ = "none" THEN "detected" ELSE @,
                         !.warnings = IF ~warned THEN @ ELSE IF @ = 0 THEN 1 ELSE 2]
       ELSE [base EXCEPT !.polledNow = TRUE, !.staleSince = "none", !.warnings = 0]

HistFail(t, id) ==
    IF Polling(t) /\ t.activeJob.id = id
    THEN [hist EXCEPT !.sinceAdopt = {}, !.staleSince = "none", !.warnings = 0]
    ELSE hist

HistTick ==
    LET kept == hist.polledNow /\ hist.staleSince # "none"
    IN [hist EXCEPT !.sinceAdopt = IF hist.polledNow THEN OlderRef(@, PollCap) ELSE {},
                    !.polledNow = FALSE,
                    !.staleSince = IF kept THEN "overdue" ELSE "none",
                    !.warnings = IF kept THEN @ ELSE 0]

\* --- actions of the tracker ---------------------------------------------

\* startImportJob: the record is created and adopted, the worker is requested
StartJob(n) ==
    /\ authToken
    /\ FreeIds # {}
    /\ LET j == CHOOSE i \in FreeIds : \A k \in FreeIds : i <= k
           job == NewJob(j, n)
           t == Commit(tracker, [tracker EXCEPT !.activeJob = job, !.isPolling = TRUE], TRUE)
       IN /\ store' = [store EXCEPT ![j] = job]
          /\ worker' = [worker EXCEPT ![j] = [NoWorker EXCEPT !.pc = "requested", !.n = n]]
          /\ tracker' = t
          /\ hist' = HistStep(tracker, t, FALSE, job, FALSE)
    /\ out' = Quiet
    /\ UNCHANGED <<authToken, resume, polls, grace>>

\* the page offers "Cancel Import" for the tracked job while the record it
\* shows is pending or in_progress
CanCancel(j) == tracker.activeJob.status \in Active /\ tracker.activeJob.id = j

\* cancelImportJob(j) whose PUT succeeds
CancelOk(j) ==
    /\ CanCancel(j)
    /\ store' = Update(j, [status |-> "cancelled", completed_at |-> "set"])
    /\ LET t == Commit(tracker, CancelBody(tracker), tracker.activeJob # NoJob)
       IN /\ tracker' = t
          /\ hist' = HistStep(tracker, t, FALSE, NoJob, FALSE)
    /\ out' = [Quiet EXCEPT !.by = "user", !.toast = "Import cancelled", !.put = {j}]
    /\ UNCHANGED <<worker, authToken, resume, polls, grace>>

\* cancelImportJob(j) whose PUT fails
CancelFail(j) ==
    /\ CanCancel(j)
    /\ out' = [Quiet EXCEPT !.by = "user", !.toast = "Failed to cancel import job", !.put = {j}]
    /\ UNCHANGED <<store, worker, tracker, authToken, resume, polls, grace, hist>>

\* the interval fires: fetchJobStatus(activeJob.id) is sent
PollTick ==
    /\ tracker.pollingIntervalRef # {}
    /\ Cardinality(polls) < MaxInFlight
    /\ polls' = polls \cup {[id |-> j, job |-> NoJob] : j \in tracker.pollingIntervalRef}
    /\ out' = Quiet
    /\ UNCHANGED <<store, worker, tracker, authToken, resume, grace, hist>>

\* the store answers a fetch with the record as it is now
PollServe(p) ==
    /\ p.job = NoJob
    /\ store[p.id] # NoJob
    /\ polls' = (polls \ {p}) \cup {[p EXCEPT !.job = store[p.id]]}
    /\ out' = Quiet
    /\ UNCHANGED <<store, worker, tracker, authToken, resume, grace, hist>>

\* an interval callback that cancels a job in the store as soon as it sees it
\* stale
PollDeliverCancelsStale(p) ==
    /\ p.job # NoJob
    /\ polls' = polls \ {p}
    /\ store' = IF IsStale(p.job)
                THEN Update(p.id, [status |-> "cancelled", completed_at |-> "set"])
                ELSE store
    /\ LET t == Commit(tracker, PollBody(tracker, p.job), TRUE)
       IN /\ tracker' = t
          /\ hist' = HistStep(tracker, t, TRUE, p.job, PollWarns(tracker, p.job))
    /\ out' = [Quiet EXCEPT !.by = "poll", !.stuckBefore = tracker.isJobStuck]
    /\ UNCHANGED <<worker, authToken, resume, grace>>

\* the answer reaches the interval callback
PollDeliver(p) ==
    /\ p.job # NoJob
    /\ polls' = polls \ {p}
    /\ LET t == Commit(tracker, PollBody(tracker, p.job), TRUE)
       IN /\ tracker' = t
          /\ hist' = HistStep(tracker, t, TRUE, p.job, PollWarns(tracker, p.job))
    /\ out' = [Quiet EXCEPT !.by = "poll", !.stuckBefore = tracker.isJobStuck]
    /\ UNCHANGED <<store, worker, authToken, resume, grace>>

\* an interval callback that stops polling when its fetch fails
PollFailStops(p) ==
    /\ polls' = polls \ {p}
    /\ LET t == Commit(tracker, [tracker EXCEPT !.isPolling = FALSE], FALSE)
       IN /\ tracker' = t
          /\ hist' = HistStep(tracker, t, FALSE, NoJob, FALSE)
    /\ out' = [Quiet EXCEPT !.by = "poll_failed"]
    /\ UNCHANGED <<store, worker, authToken, resume, grace>>

\* the fetch fails: fetchJobStatus returns null
PollFail(p) ==
    /\ polls' = polls \ {p}
    /\ hist' = HistFail(tracker, p.id)
    /\ out' = [Quiet EXCEPT !.by = "poll_failed"]
    /\ UNCHANGED <<store, worker, tracker, authToken, resume, grace>>

\* a sign-out handler that cancels the tracked job in the store on its way out
SignOutCancelling ==
    /\ authToken
    /\ authToken' = FALSE
    /\ store' = IF tracker.activeJob # NoJob
                THEN Update(tracker.activeJob.id,
                            [status |-> "cancelled", completed_at |-> "set"])
                ELSE store
    /\ LET t == Commit(tracker, SignOutBody(tracker), tracker.activeJob # NoJob)
       IN /\ tracker' = t
          /\ hist' = HistStep(tracker, t, FALSE, NoJob, FALSE)
    /\ out' = [Quiet EXCEPT !.by = "sign_out"]
    /\ UNCHANGED <<worker, resume, polls, grace>>

\* storage event: authToken removed
SignOut ==
    /\ authToken
    /\ authToken' = FALSE
    /\ LET t == Commit(tracker, SignOutBody(tracker), tracker.activeJob # NoJob)
       IN /\ tracker' = t
          /\ hist' = HistStep(tracker, t, FALSE, NoJob, FALSE)
    /\ out' = [Quiet EXCEPT !.by = "sign_out"]
    /\ UNCHANGED <<store, worker, resume, polls, grace>>

\* storage event: authToken set; checkForActiveJobs is called if logged out
SignIn ==
    /\ ~authToken
    /\ authToken' = TRUE
    /\ tracker' = [tracker EXCEPT !.isLoggedOutRef = FALSE]
    /\ resume' = (resume \/ tracker.isLoggedOutRef)
    /\ out' = Quiet
    /\ UNCHANGED <<store, worker, polls, grace, hist>>

\* a checkForActiveJobs that empties the tracker when the list is empty
ResumeDeliverClears ==
    /\ resume
    /\ resume' = FALSE
    /\ IF ActiveIds = {}
       THEN LET t == Commit(tracker, CancelBody(tracker), tracker.activeJob # NoJob)
            IN /\ tracker' = t
               /\ hist' = HistStep(tracker, t, FALSE, NoJob, FALSE)
               /\ out' = [Quiet EXCEPT !.by = "resume"]
       ELSE LET job == store[Newest(ActiveIds)]
                t == Commit(tracker, ResumeBody(tracker, job), TRUE)
            IN /\ tracker' = t
               /\ hist' = HistStep(tracker, t, TRUE, job, IsStale(job))
               /\ out' = Quiet
    /\ UNCHANGED <<store, worker, authToken, polls, grace>>

\* checkForActiveJobs receives the list of active jobs
ResumeDeliver ==
    /\ resume
    /\ resume' = FALSE
    /\ IF ActiveIds = {}
       THEN /\ out' = [Quiet EXCEPT !.by = "resume"]
            /\ UNCHANGED <<tracker, hist>>
       ELSE LET job == store[Newest(ActiveIds)]
                t == Commit(tracker, ResumeBody(tracker, job), TRUE)
            IN /\ tracker' = t
               /\ hist' = HistStep(tracker, t, TRUE, job, IsStale(job))
               /\ out' = Quiet
    /\ UNCHANGED <<store, worker, authToken, polls, grace>>

\* checkForActiveJobs: the list request fails
ResumeFail ==
    /\ resume
    /\ resume' = FALSE
    /\ out' = Quiet
    /\ UNCHANGED <<store, worker, tracker, authToken, polls, grace, hist>>

\* --- time -----------------------------------------------------------------

AgeJob(job) == IF job = NoJob THEN job ELSE [job EXCEPT !.updated_ago = Older(@, AgeCap)]

\* one unit passes; a request in flight is answered or fails within its unit
Tick ==
    /\ polls = {}
    /\ grace = {}
    /\ ~resume
    /\ store' = [j \in JobIds |-> AgeJob(store[j])]
    /\ tracker' = [tracker EXCEPT !.activeJob = AgeJob(@),
                                  !.pollingStartTimeRef = OlderRef(@, PollCap)]
    /\ hist' = HistTick
    /\ out' = Quiet
    /\ UNCHANGED <<worker, authToken, resume, polls, grace>>

\* --- the system -----------------------------------------------------------

\* a job left by an earlier session, its worker gone
EarlierJobs ==
    {[NewJob(1, MaxTables) EXCEPT !.status = s, !.updated_ago = a] :
        s \in Active, a \in {0, AgeCap}}

\* the hook is mounted: checkForActiveJobs was called by the mount effect
Init ==
    /\ store \in [JobIds -> {NoJob}] \cup
                 {[j \in JobIds |-> IF j = 1 THEN e ELSE NoJob] : e \in EarlierJobs}
    /\ worker = [j \in JobIds |-> IF store[j] = NoJob THEN NoWorker ELSE LostWorker]
    /\ tracker = InitTracker
    /\ authToken \in BOOLEAN
    /\ resume = authToken
    /\ polls = {}
    /\ grace = {}
    /\ out = Quiet
    /\ hist = [sinceAdopt |-> {}, polledNow |-> FALSE,
               staleSince |-> "none", warnings |-> 0,
               autoCancels |-> [j \in JobIds |-> 0]]

Next ==
    \/ \E n \in 0..MaxTables : StartJob(n)
    \/ \E j \in JobIds : CancelOk(j) \/ CancelFail(j)
    \/ PollTick
    \/ \E p \in polls : PollServe(p) \/ PollDeliver(p) \/ PollFail(p)
    \/ SignOut
    \/ SignIn
    \/ ResumeDeliver
    \/ ResumeFail
    \/ \E j \in JobIds : WorkerAccept(j) \/ TriggerFail(j)
    \/ \E j \in JobIds, ok \in BOOLEAN : WorkerCreateDb(j, ok) \/ WorkerImport(j, ok)
    \/ \E j \in JobIds : WorkerCheck(j) \/ WorkerFinal(j)
    \/ Tick

Spec == Init /\ [][Next]_vars

\* --- the auto-cancel timeout ----------------------------------------------
\* Every handler that arms the timeout also calls setActiveJob with a new
\* record, so the commit that follows runs a cleanup that clears it: in Spec
\* no timeout is pending between two handlers and the callback never runs.
\* SpecGrace examines the callback itself, from the states in which a timeout
\* armed for job 1 would fall due had it not been cleared.

\* a final check that looks at the status only and not at updated_at
AutoCancelDueNoRecheck(finalCheck) == finalCheck.status \in Active

\* the final check of the callback: still pending or in_progress, still stale
AutoCancelDue(finalCheck) ==
    /\ finalCheck.status \in Active
    /\ finalCheck.updated_ago > STALE_JOB_THRESHOLD

\* the timeout fires: the callback sends fetchJobStatus(id)
GraceFire ==
    /\ tracker.autoCancelTimeoutRef # {}
    /\ grace' = grace \cup {[id |-> j, atFire |-> store[j], job |-> NoJob] :
                               j \in tracker.autoCancelTimeoutRef}
    /\ tracker' = [tracker EXCEPT !.autoCancelTimeoutRef = {}]
    /\ out' = Quiet
    /\ UNCHANGED <<store, worker, authToken, resume, polls, hist>>

\* the store answers the final check
GraceServe(g) ==
    /\ g.job = NoJob
    /\ grace' = (grace \ {g}) \cup {[g EXCEPT !.job = store[g.id]]}
    /\ out' = Quiet
    /\ UNCHANGED <<store, worker, tracker, authToken, resume, polls, hist>>

\* a callback that cancels the job when its final check could not be made
GraceEndCancelsUnchecked(g) ==
    /\ g.job = NoJob \/ ~AutoCancelDue(g.job)
    /\ grace' = grace \ {g}
    /\ IF g.job = NoJob
       THEN /\ store' = Update(g.id, [status |-> "cancelled", completed_at |-> "set"])
            /\ out' = [Quiet EXCEPT !.by = "timer", !.atFire = g.atFire, !.put = {g.id}]
       ELSE /\ store' = store
            /\ out' = [Quiet EXCEPT !.by = "timer", !.atFire = g.atFire,
                                    !.finalCheck = g.job]
    /\ UNCHANGED <<worker, tracker, authToken, resume, polls, hist>>

\* the final check fails (fetchJobStatus returns null), or finds the job
\* updated or finished: the callback ends
GraceEnd(g) ==
    /\ g.job = NoJob \/ ~AutoCancelDue(g.job)
    /\ grace' = grace \ {g}
    /\ out' = [Quiet EXCEPT !.by = "timer", !.atFire = g.atFire, !.finalCheck = g.job]
    /\ UNCHANGED <<store, worker, tracker, authToken, resume, polls, hist>>

CountCancel(j) ==
    [hist EXCEPT !.autoCancels[j] = IF @ = 0 THEN 1 ELSE 2]

\* the final check finds the job still stuck: cancelImportJob(id), PUT succeeds
GraceCancelOk(g) ==
    /\ g.job # NoJob /\ AutoCancelDue(g.job)
    /\ grace' = grace \ {g}
    /\ store' = Update(g.id, [status |-> "cancelled", completed_at |-> "set"])
    /\ LET t == Commit(tracker, CancelBody(tracker), tracker.activeJob # NoJob)
       IN /\ tracker' = t
          /\ hist' = [HistStep(tracker, t, FALSE, NoJob, FALSE) EXCEPT
                         !.autoCancels = CountCancel(g.id).autoCancels]
    /\ out' = [by |-> "timer", toast |-> "Stuck import job has been automatically cancelled",
               put |-> {g.id}, atFire |-> g.atFire, finalCheck |-> g.job,
               stuckBefore |-> FALSE]
    /\ UNCHANGED <<worker, authToken, resume, polls>>

\* the same with a PUT that fails: cancelImportJob swallows the error
GraceCancelFail(g) ==
    /\ g.job # NoJob /\ AutoCancelDue(g.job)
    /\ grace' = grace \ {g}
    /\ hist' = CountCancel(g.id)
    /\ out' = [by |-> "timer", toast |-> "Stuck import job has been automatically cancelled",
               put |-> {g.id}, atFire |-> g.atFire, finalCheck |-> g.job,
               stuckBefore |-> FALSE]
    /\ UNCHANGED <<store, worker, tracker, authToken, resume, polls>>

\* records job 1 can hold when the timeout falls due
DueRecords ==
    {r \in {[NewJob(1, MaxTables) EXCEPT
                !.status = s, !.updated_ago = a, !.imported_tables = i,
                !.completed_at = IF s \in Terminal THEN "set" ELSE NULL] :
            s \in Statuses, a \in 0..AgeCap, i \in 0..MaxTables} :
        /\ r.status \in {"pending", "failed"} => r.imported_tables = 0
        /\ r.status = "completed" => r.imported_tables = MaxTables}

\* the tracker after the handler that armed the timeout for the stale job
\* seen (interval callback or checkForActiveJobs), with the polling effect run
ArmedTracker(seen) ==
    PollingEffect(ResumeBody(InitTracker, seen))

InitGrace ==
    /\ store \in {[j \in JobIds |-> IF j = 1 THEN r ELSE NoJob] : r \in DueRecords}
    /\ worker \in {[j \in JobIds |-> IF j = 1 THEN w ELSE NoWorker] :
                      w \in {LostWorker,
                             [NoWorker EXCEPT !.pc = "check", !.n = MaxTables, !.k = 1]}}
    /\ worker[1].pc = "check" => store[1].status = "in_progress" /\ store[1].imported_tables = 0
    /\ tracker \in {ArmedTracker([NewJob(1, MaxTables) EXCEPT !.status = s,
                                                              !.updated_ago = AgeCap]) :
                       s \in Active}
    /\ authToken = TRUE
    /\ resume = FALSE
    /\ polls = {}
    /\ grace = {}
    /\ out = Quiet
    /\ hist = [sinceAdopt |-> {0}, polledNow |-> TRUE,
               staleSince |-> "overdue", warnings |-> 1,
               autoCancels |-> [j \in JobIds |-> 0]]

NextGrace ==
    \/ GraceFire
    \/ \E g \in grace : GraceServe(g) \/ GraceEnd(g) \/ GraceCancelOk(g) \/ GraceCancelFail(g)
    \/ \E j \in JobIds : WorkerCheck(j) \/ WorkerFinal(j)
    \/ \E j \in JobIds, ok \in BOOLEAN : WorkerImport(j, ok)
    \/ \E j \in JobIds : CancelOk(j) \/ CancelFail(j)
    \/ SignOut
    \/ Tick

SpecGrace == InitGrace /\ [][NextGrace]_vars

\* --- the functions of the hook, called by any caller -----------------------
\* SpecCalls follows the calls themselves, without polls and without the
\* passing of time: checkForActiveJobs at mount with or without a session,
\* startImportJob with or without a session, cancelImportJob with the tracked
\* id or with another one, and the worker runs they start.

\* a job id the store holds for another tab of the user; its record is not
\* followed here
ForeignIds == {MaxJobs + 1}

\* a startImportJob that does not look at the session
StartJobNoCheck ==
    /\ ~authToken
    /\ FreeIds # {}
    /\ LET j == CHOOSE i \in FreeIds : \A k \in FreeIds : i <= k
           job == NewJob(j, 0)
           t == Commit(tracker, [tracker EXCEPT !.activeJob = job, !.isPolling = TRUE], TRUE)
       IN /\ store' = [store EXCEPT ![j] = job]
          /\ worker' = [worker EXCEPT ![j] = [NoWorker EXCEPT !.pc = "requested"]]
          /\ tracker' = t
          /\ hist' = HistStep(tracker, t, FALSE, job, FALSE)
    /\ out' = [Quiet EXCEPT !.by = "start"]
    /\ UNCHANGED <<authToken, resume, polls, grace>>

\* startImportJob without authToken: a toast, null is returned
StartJobUnauthenticated ==
    /\ ~authToken
    /\ out' = [Quiet EXCEPT !.by = "start",
                            !.toast = "You must be logged in to start an import"]
    /\ UNCHANGED <<store, worker, tracker, authToken, resume, polls, grace, hist>>

\* cancelImportJob(j) for a job that is not the tracked one; ok: the PUT succeeds
CancelOther(j, ok) ==
    /\ tracker.activeJob # NoJob
    /\ j # tracker.activeJob.id
    /\ ok => (IF j \in JobIds THEN store[j] # NoJob ELSE TRUE)
    /\ IF ok
       THEN /\ store' = IF j \in JobIds
                        THEN Update(j, [status |-> "cancelled", completed_at |-> "set"])
                        ELSE store
            /\ LET t == Commit(tracker, CancelBody(tracker), TRUE)
               IN /\ tracker' = t
                  /\ hist' = HistStep(tracker, t, FALSE, NoJob, FALSE)
            /\ out' = [Quiet EXCEPT !.by = "caller", !.toast = "Import cancelled",
                                    !.put = {j}]
       ELSE /\ out' = [Quiet EXCEPT !.by = "caller",
                                    !.toast = "Failed to cancel import job", !.put = {j}]
            /\ UNCHANGED <<store, tracker, hist>>
    /\ UNCHANGED <<worker, authToken, resume, polls, grace>>

\* checkForActiveJobs without authToken: it returns before any request
ResumeNoSession ==
    /\ resume
    /\ ~authToken
    /\ resume' = FALSE
    /\ out' = [Quiet EXCEPT !.by = "resume"]
    /\ UNCHANGED <<store, worker, tracker, authToken, polls, grace, hist>>

\* the hook is mounted and the mount effect calls checkForActiveJobs, which
\* has not read authToken yet
InitCalls ==
    /\ store \in [JobIds -> {NoJob}] \cup
                 {[j \in JobIds |-> IF j = 1 THEN e ELSE NoJob] : e \in EarlierJobs}
    /\ worker = [j \in JobIds |-> IF store[j] = NoJob THEN NoWorker ELSE LostWorker]
    /\ tracker = InitTracker
    /\ authToken \in BOOLEAN
    /\ resume = TRUE
    /\ polls = {}
    /\ grace = {}
    /\ out = Quiet
    /\ hist = [sinceAdopt |-> {}, polledNow |-> FALSE,
               staleSince |-> "none", warnings |-> 0,
               autoCancels |-> [j \in JobIds |-> 0]]

NextCalls ==
    \/ ResumeNoSession
    \/ authToken /\ (ResumeDeliver \/ ResumeFail)
    \/ ~resume /\ SignIn
    \/ \E n \in 0..MaxTables : StartJob(n)
    \/ StartJobUnauthenticated
    \/ \E j \in JobIds : CancelOk(j) \/ CancelFail(j)
    \/ \E j \in JobIds \cup ForeignIds, ok \in BOOLEAN : CancelOther(j, ok)
    \/ \E j \in JobIds : WorkerAccept(j) \/ TriggerFail(j)
    \/ \E j \in JobIds, ok \in BOOLEAN : WorkerCreateDb(j, ok) \/ WorkerImport(j, ok)
    \/ \E j \in JobIds : WorkerCheck(j) \/ WorkerFinal(j)

SpecCalls == InitCalls /\ [][NextCalls]_vars

\* --- one worker run, followed on its own ------------------------------------
\* SpecWorker starts where startImportJob has created and adopted job 1 for n
\* names and requested its worker run, and follows that run and the user's
\* cancel, without polls and without the passing of time.
InitWorker ==
    \E n \in 0..MaxNames :
        /\ store = [j \in JobIds |-> IF j = 1 THEN NewJob(1, n) ELSE NoJob]
        /\ worker = [j \in JobIds |->
                        IF j = 1 THEN [NoWorker EXCEPT !.pc = "requested", !.n = n]
                        ELSE NoWorker]
        /\ tracker = Commit(InitTracker,
                            [InitTracker EXCEPT !.activeJob = NewJob(1, n),
                                                !.isPolling = TRUE], TRUE)
        /\ authToken = TRUE
        /\ resume = FALSE
        /\ polls = {}
        /\ grace = {}
        /\ out = Quiet
        /\ hist = [sinceAdopt |-> {0}, polledNow |-> FALSE,
                   staleSince |-> "none", warnings |-> 0,
                   autoCancels |-> [j \in JobIds |-> 0]]

NextWorker ==
    \/ \E j \in JobIds : WorkerAccept(j) \/ TriggerFail(j)
    \/ \E j \in JobIds, ok \in BOOLEAN : WorkerCreateDb(j, ok) \/ WorkerImport(j, ok)
    \/ \E j \in JobIds : WorkerCheck(j) \/ WorkerFinal(j)
    \/ \E j \in JobIds : CancelOk(j) \/ CancelFail(j)

SpecWorker == InitWorker /\ [][NextWorker]_vars

\* ==========================================================================
\* Properties
\* ==========================================================================

Cleared(t) ==
    /\ t.activeJob = NoJob
    /\ ~t.isPolling
    /\ t.pollingIntervalRef = {}
    /\ t.autoCancelTimeoutRef = {}

\* C1 (SpecGrace): when the job is fresh or terminal in the store at the moment
\* the grace timer fires, the callback ends without sending a cancel and
\* without touching the store or the tracker.
C1_GraceRecheckNoop ==
    [][\A g \in grace :
          (~IsStale(g.atFire) /\ (GraceEnd(g) \/ GraceCancelOk(g) \/ GraceCancelFail(g)))
          => (out'.put = {} /\ store' = store /\ tracker' = tracker)]_vars

\* C1 witness: the job was in progress and fresh again when the timer fired,
\* the final check read that record and the callback ended without a cancel;
\* the job is still in progress and still tracked, with the stale flag up.
C1_Witness ==
    /\ out.by = "timer" /\ out.put = {}
    /\ out.atFire.status = "in_progress" /\ ~IsStale(out.atFire)
    /\ out.finalCheck = out.atFire
    /\ store[1].status = "in_progress"
    /\ Polling(tracker) /\ tracker.activeJob.id = 1 /\ tracker.isJobStuck

\* C2: a tracked job that stayed stale, with every poll answered, for a whole
\* unit (longer than the grace period) after the poll that detected it has
\* had exactly one cancel request sent by the auto-cancel timeout.
C2_AutoCancelAtExpiry ==
    \A j \in JobIds :
        (Polling(tracker) /\ tracker.activeJob.id = j
         /\ hist.staleSince = "overdue" /\ IsStale(store[j]))
        => hist.autoCancels[j] = 1

\* C3: in one uninterrupted stale period of the tracked job (every poll
\* answered and finding it stale) the stale warning is raised, and the grace
\* timer armed, at most once.
C3_SingleStaleWarning == hist.warnings <= 1

\* C4: a stored status that is completed, failed or cancelled never changes.
C4_TerminalStatusStays ==
    [][\A j \in JobIds :
          store[j].status \in Terminal => store'[j].status = store[j].status]_vars

\* C5: once activeJob holds a terminal record of a job, no poll answer for the
\* same job id replaces it by a pending or in_progress record.
C5_ObservedTerminalStays ==
    [][\A p \in polls :
          (PollDeliver(p) /\ tracker.activeJob.id = p.id
           /\ tracker.activeJob.status \in Terminal)
          => tracker'.activeJob.status \in Terminal]_vars

\* C6 (SpecGrace): the sign-out of a tracker that tracks a job sends no
\* request, leaves the store as it is and leaves no grace timer pending.
C6_SignOutKeepsStore ==
    [][(SignOut /\ tracker.activeJob # NoJob)
       => (store' = store /\ out'.put = {} /\ tracker'.autoCancelTimeoutRef = {})]_vars

\* C6 witness: signed out with the grace timer still pending at that moment;
\* the job is still stale in the store and not cancelled, no timer is left.
C6_Witness ==
    /\ tracker.isLoggedOutRef /\ ~authToken
    /\ grace = {} /\ hist.autoCancels[1] = 0
    /\ store[1].status \in Active /\ IsStale(store[1])
    /\ tracker.autoCancelTimeoutRef = {}

\* C7: from the sign-out of a tracker that tracked a job until the next
\* sign-in, the tracker is not polling and its tracked job is empty.
C7_SignedOutForgets ==
    (tracker.isLoggedOutRef /\ ~authToken)
    => (tracker.activeJob = NoJob /\ ~tracker.isPolling)

\* C8: after cancelJob for the tracked job the tracker has stopped polling,
\* has no timer and no tracked job, whether the PUT succeeded or failed.
C8_CancelClearsTracker == out.by = "user" => Cleared(tracker)

\* C9: a tracker that has been polling one job for more than the ceiling, and
\* had a poll answered since, is no longer polling.
C9_CeilingStopsPolling ==
    \A k \in hist.sinceAdopt : hist.polledNow => k <= MAX_POLLING_TIME

\* C10: completed_at is set exactly when the status is terminal.
C10_CompletedAtIffTerminal ==
    \A j \in JobIds :
        store[j] # NoJob => (store[j].completed_at # NULL <=> store[j].status \in Terminal)

\* C11: the imported_tables values that successive poll answers for one job
\* write into activeJob never decrease (out.by = "poll": the record now in
\* activeJob was written by a poll answer).
C11_ObservedProgressMonotonic ==
    [][\A p \in polls :
          (PollDeliver(p) /\ out.by = "poll" /\ tracker.activeJob.id = p.id)
          => tracker'.activeJob.imported_tables >= tracker.activeJob.imported_tables]_vars

\* C12 (SpecCalls): the stored record of a job always has
\* 0 <= imported_tables <= total_tables, total_tables is the number of names
\* its worker run was given, and imported_tables does not decrease from one
\* pending or in_progress record to the next.
C12_CountersWithinTotal ==
    /\ [](\A j \in JobIds :
            store[j] # NoJob
            => /\ 0 <= store[j].imported_tables
               /\ store[j].imported_tables <= store[j].total_tables
               /\ worker[j] # LostWorker => store[j].total_tables = worker[j].n)
    /\ [][\A j \in JobIds :
            (store[j].status \in Active /\ store'[j].status \in Active)
            => store'[j].imported_tables >= store[j].imported_tables]_vars

\* C12 witness: a job started with MaxTables names whose worker run has
\* imported every one of them and written the final record.
C12_Witness ==
    /\ worker[1].pc = "done" /\ worker[1].n = MaxTables
    /\ worker[1].importedCount = MaxTables
    /\ store[1].status = "completed"
    /\ store[1].imported_tables = MaxTables /\ store[1].total_tables = MaxTables

\* C13: a poll answer with a terminal record leaves the tracker not polling,
\* with no grace timer and no stale flag, and holding that record; from then
\* on the tracker stays so and keeps the record of that job with that status
\* until the next startJob or resume (a sign-out, which empties the tracker on
\* purpose, is not held against it).
C13_TerminalTransition ==
    [][/\ \A p \in polls :
            (PollDeliver(p) /\ p.job.status \in Terminal)
            => /\ ~tracker'.isPolling /\ ~tracker'.isJobStuck
               /\ tracker'.autoCancelTimeoutRef = {}
               /\ tracker'.activeJob = p.job
       /\ (/\ tracker.activeJob.status \in Terminal
           /\ ~(\E n \in 0..MaxTables : StartJob(n))
           /\ ~ResumeDeliver /\ ~SignOut)
          => /\ tracker'.activeJob.id = tracker.activeJob.id
             /\ tracker'.activeJob.status = tracker.activeJob.status
             /\ ~tracker'.isPolling /\ ~tracker'.isJobStuck
             /\ tracker'.autoCancelTimeoutRef = {}]_vars

\* C14: a poll answer that shows the tracked job not stale while the stale
\* flag is raised clears the flag and leaves no grace timer pending.
C14_Unstaling ==
    [][\A p \in polls :
          (PollDeliver(p) /\ tracker.activeJob.id = p.id
           /\ tracker.isJobStuck /\ ~IsStale(p.job))
          => (~tracker'.isJobStuck /\ tracker'.autoCancelTimeoutRef = {})]_vars

\* C14 witness: the latest step was a poll answer that found the stale flag
\* raised and a pending or in_progress record that is fresh again; the flag is
\* down, no timer is pending and the job is still polled.
C14_Witness ==
    /\ out.by = "poll" /\ out.stuckBefore
    /\ tracker.activeJob.status \in Active /\ ~IsStale(tracker.activeJob)
    /\ ~tracker.isJobStuck /\ tracker.autoCancelTimeoutRef = {}
    /\ Polling(tracker)

\* C15: checkForActiveJobs with a non-empty list adopts the newest listed job
\* and polls it; if that job is stale, the stale flag is raised and a grace
\* timer for it is pending once the call has been handled.
C15_ResumeAdoptsAndArms ==
    [][(ResumeDeliver /\ ActiveIds # {})
       => LET job == store[Newest(ActiveIds)]
          IN /\ tracker'.activeJob = job
             /\ tracker'.isPolling /\ tracker'.pollingIntervalRef = {job.id}
             /\ IsStale(job) => /\ tracker'.isJobStuck
                                /\ tracker'.autoCancelTimeoutRef = {job.id}]_vars

\* C16 (SpecCalls): checkForActiveJobs without a session, or with an empty
\* list of active jobs, sends no PUT and changes neither the store, nor the
\* worker runs, nor the tracker's state and refs.
C16_ResumeNoop ==
    [][(ResumeNoSession \/ (ResumeDeliver /\ ActiveIds = {}))
       => (store' = store /\ worker' = worker /\ tracker' = tracker
           /\ out'.put = {})]_vars

\* C16 witness: checkForActiveJobs has just returned with an empty list while
\* the tracker was polling a job started in the meantime; it still is.
C16_Witness ==
    /\ out.by = "resume" /\ authToken
    /\ ActiveIds = {}
    /\ Polling(tracker) /\ tracker.pollingIntervalRef = {tracker.activeJob.id}

\* C17 (SpecCalls): a startImportJob call handled without a session creates no
\* record, requests no worker run, sends no PUT and leaves activeJob and
\* isPolling as they were.
C17_StartUnauthenticated ==
    [][(~authToken /\ out'.by = "start")
       => /\ store' = store /\ worker' = worker /\ out'.put = {}
          /\ tracker'.activeJob = tracker.activeJob
          /\ tracker'.isPolling = tracker.isPolling]_vars

\* C17 witness: startImportJob has just refused a caller without a session;
\* no record was created, no worker run requested, nothing is tracked.
C17_Witness ==
    /\ out.by = "start" /\ ~authToken
    /\ out.toast = "You must be logged in to start an import"
    /\ FreeIds # {}
    /\ \A j \in JobIds : worker[j].pc \in {"none", "lost"}
    /\ tracker.activeJob = NoJob /\ ~tracker.isPolling

\* C18 (SpecCalls): cancelImportJob with an id other than the tracked job's
\* sends the PUT for that id and leaves the tracker's state and refs alone.
C18_CancelOtherKeepsTracker ==
    [][\A j \in JobIds \cup ForeignIds, ok \in BOOLEAN :
          CancelOther(j, ok) => (out'.put = {j} /\ tracker' = tracker)]_vars

\* C19: a poll whose fetch failed leaves the tracker's state and refs (tracked
\* job, polling flag, stale flag, interval, timer) and the store as they were.
C19_FailedPollChangesNothing ==
    [][out'.by = "poll_failed" => (tracker' = tracker /\ store' = store)]_vars

\* C19 witness: a poll of a tracked stale job has just failed; the job is still
\* tracked and polled by the same interval, the stale flag is still raised.
C19_Witness ==
    /\ out.by = "poll_failed"
    /\ Polling(tracker) /\ tracker.pollingIntervalRef = {tracker.activeJob.id}
    /\ tracker.isJobStuck /\ IsStale(tracker.activeJob)

\* C20: the tracker has at most one fetch of the job record outstanding.
C20_PollsDoNotOverlap == Cardinality(polls) <= 1

C22_ResumeOnRegain ==
    [][(out.by = "sign_out" /\ SignIn) => resume']_vars

\* C23: a PUT is sent only by a cancel (by the user or by the auto-cancel
\* timeout), and a stored record changes only by a step of its worker run, by
\* the passing of time, by startImportJob creating it, or by that PUT setting
\* status = cancelled and completed_at.
C23_TrackerWritesOnlyCreateAndCancel ==
    [][/\ out'.put # {} => out'.by \in {"user", "timer"}
       /\ \A j \in JobIds :
            store'[j] # store[j]
            => \/ worker[j].pc # "none" /\ worker'[j] # worker[j]
               \/ store'[j] = AgeJob(store[j])
               \/ /\ store[j] = NoJob /\ worker'[j].pc = "requested"
                  /\ \E n \in 0..MaxTables : store'[j] = NewJob(j, n)
               \/ /\ out'.put = {j}
                  /\ store'[j] = Patch(store[j], [status |-> "cancelled",
                                                  completed_at |-> "set"])]_vars

\* C23 witness: a poll answer has just shown the tracked job stale and raised
\* the stale flag; the stored record is still pending or in_progress and no
\* PUT was sent.
C23_Witness ==
    /\ out.by = "poll" /\ out.put = {} /\ ~out.stuckBefore
    /\ tracker.isJobStuck /\ Polling(tracker)
    /\ store[tracker.activeJob.id].status \in Active
    /\ IsStale(store[tracker.activeJob.id])

\* C24 (SpecWorker): the final update of a worker run writes counters with
\* imported_tables + |failed_tables| = total_tables, and failed_tables lists
\* the failed names in the order they were processed.
C24_EveryTableCountedOnce ==
    [][\A j \in JobIds :
          WorkerFinal(j)
          => LET r == store'[j]
             IN /\ r.imported_tables + Len(r.failed_tables) = r.total_tables
                /\ r.total_tables = worker[j].n
                /\ \A a, b \in 1..Len(r.failed_tables) :
                      a < b => r.failed_tables[a] < r.failed_tables[b]]_vars

\* C24 witness: a run over MaxNames names has written its final update after
\* one name was imported and the others failed.
C24_Witness ==
    /\ worker[1].pc = "done" /\ worker[1].n = MaxNames
    /\ store[1].imported_tables = 1
    /\ Len(store[1].failed_tables) = MaxNames - 1
    /\ store[1].total_tables = MaxNames
    /\ store[1].completed_at # NULL

\* C25 (SpecWorker): the status of the final update is completed when no table
\* failed, failed when some failed and none was imported, completed when some
\* failed and some were imported; error_message is set exactly when a table
\* failed.
C25_FinalStatusFromCounters ==
    [][\A j \in JobIds :
          WorkerFinal(j)
          => LET r == store'[j]
                 f == Len(worker[j].failedTables)
                 i == worker[j].importedCount
             IN /\ f = 0 => r.status = "completed"
                /\ (f > 0 /\ i = 0) => r.status = "failed"
                /\ (f > 0 /\ i > 0) => r.status = "completed"
                /\ r.error_message # NULL <=> Len(r.failed_tables) > 0]_vars

\* C25 witness: a run in which one name was imported and one failed has written
\* completed with an error message.
C25_Witness ==
    /\ worker[1].pc = "done"
    /\ worker[1].importedCount > 0 /\ Len(worker[1].failedTables) > 0
    /\ store[1].status = "completed" /\ store[1].error_message # NULL

\* C26 (SpecWorker): once a cancel of the job has been recorded by the store
\* (completed_at is set while the run is still going), the worker's next check
\* at the top of the loop does not go on to import a table.
C26_CancelStopsWorker ==
    [][\A j \in JobIds :
          (WorkerCheck(j) /\ store[j].completed_at # NULL)
          => worker'[j].pc # "import"]_vars

\* C27: when the request that starts the worker fails, startImportJob shows
\* its failure toast and leaves the store and the tracker (which has adopted
\* the job and polls it) as they are; a pending job without a worker stays
\* pending unless a cancel PUT for it sets it to cancelled.
C27_TriggerFailureKeepsJob ==
    [][/\ out'.by = "start_failed"
          => /\ tracker' = tracker /\ store' = store
             /\ out'.toast = "Failed to start import" /\ out'.put = {}
       /\ \A j \in JobIds :
            (worker[j].pc = "lost" /\ store[j].status = "pending")
            => \/ store'[j].status = "pending"
               \/ out'.put = {j} /\ store'[j].status = "cancelled"]_vars

\* C27 witness: the request for the worker of job 1 has just failed; the job is
\* pending in the store without a worker, the tracker holds it and polls it.
C27_Witness ==
    /\ out.by = "start_failed"
    /\ worker[1].pc = "lost" /\ store[1].status = "pending"
    /\ Polling(tracker) /\ tracker.activeJob.id = 1
    /\ tracker.pollingIntervalRef = {1}

\* C28: a poll answer that arrives when the tracker is no longer polling the
\* job it was sent for changes nothing in the tracker.
C28_LateAnswerIgnored ==
    [][\A p \in polls :
          (PollDeliver(p) /\ ~(Polling(tracker) /\ tracker.activeJob.id = p.id))
          => tracker' = tracker]_vars

\* C29 (SpecGrace): when the final check of the auto-cancel timeout fails, the
\* callback sends no PUT, shows no toast and leaves the store and the tracker
\* as they are.
C29_GraceFetchFailureNoop ==
    [][\A g \in grace :
          (g.job = NoJob /\ GraceEnd(g))
          => /\ out'.put = {} /\ out'.toast = NULL
             /\ store' = store /\ tracker' = tracker]_vars

\* C29 witness: the callback has just ended without a final check; the job is
\* still stale and pending or in_progress in the store, and still tracked and
\* polled.
C29_Witness ==
    /\ out.by = "timer" /\ out.finalCheck = NoJob /\ out.put = {}
    /\ IsStale(out.atFire) /\ IsStale(store[1])
    /\ Polling(tracker) /\ tracker.activeJob.id = 1

\* C30: the stale flag is raised only while the tracker is polling a job whose
\* last observed status is pending or in_progress.
C30_StuckOnlyWhilePolling ==
    tracker.isJobStuck => (Polling(tracker) /\ tracker.activeJob.status \in Active)

================================================================================
